---- MODULE Spec2Model ----
(***************************************************************************)
(* Model of abseil.podspec.gen.py: the generator that walks the absl tree, *)
(* queries bazel for every package, indexes the cc_library rules into a    *)
(* nested dictionary and renders abseil.podspec.                           *)
(*                                                                         *)
(* Python strings are sequences of one-character strings, so that          *)
(* startswith, slicing, lstrip, replace, split and the code point order of *)
(* sorted() are computed as the code computes them.  The text written to   *)
(* the output file is the sequence of f.write calls, one record per call.  *)
(***************************************************************************)
EXTENDS Integers, Sequences, FiniteSets, TLC

\* ------------------------------------------------------------------ bounds

\* At most this many <rule> elements exist in the BUILD.bazel files of a run.
MaxRules == 3

\* Paths handed to normalize_paths are at most this long.
MaxPathLen == 4

\* ----------------------------------------------------------------- strings

\* The characters the model uses, in code point order.
ASCII ==
  << "-", ".", "/", "0", "1", "2", "3", "4", "5", "6", "7", "8", "9", ":",
     "@", "_", "a", "b", "c", "d", "e", "f", "g", "h", "i", "j", "k", "l",
     "m", "n", "o", "p", "q", "r", "s", "t", "u", "v", "w", "x", "y", "z" >>

Ord(c) == CHOOSE i \in 1..Len(ASCII) : ASCII[i] = c

Min(a, b) == IF a < b THEN a ELSE b

\* Python's str < str: the first differing code point decides, a proper
\* prefix is smaller.
StrLess(a, b) ==
  LET n == Min(Len(a), Len(b))
      diff == {i \in 1..n : a[i] # b[i]}
  IN  IF diff = {}
      THEN Len(a) < Len(b)
      ELSE LET i == CHOOSE j \in diff : \A k \in diff : j <= k
           IN  Ord(a[i]) < Ord(b[i])

\* sorted(list of str)
sorted(xs) == SortSeq(xs, StrLess)

\* str.startswith
startswith(s, p) == Len(s) >= Len(p) /\ SubSeq(s, 1, Len(p)) = p

\* str.lstrip(chars) for a one-character set
RECURSIVE lstrip(_, _)
lstrip(s, c) ==
  IF s # <<>> /\ Head(s) = c THEN lstrip(Tail(s), c) ELSE s

\* str.replace(old, new) for one-character old and new
replace(s, old, new) == [i \in 1..Len(s) |-> IF s[i] = old THEN new ELSE s[i]]

\* str.split(sep) for a one-character sep: "a/".split("/") is ["a", ""].
RECURSIVE split(_, _)
split(s, sep) ==
  LET hits == {i \in 1..Len(s) : s[i] = sep}
  IN  IF hits = {}
      THEN << s >>
      ELSE LET i == CHOOSE j \in hits : \A k \in hits : j <= k
           IN  << SubSeq(s, 1, i - 1) >> \o split(SubSeq(s, i + 1, Len(s)), sep)

\* "{}".format(n) for a natural number
DigitChars == << "0", "1", "2", "3", "4", "5", "6", "7", "8", "9" >>

RECURSIVE format_int(_)
format_int(n) ==
  IF n < 10
  THEN << DigitChars[n + 1] >>
  ELSE format_int(n \div 10) \o << DigitChars[(n % 10) + 1] >>

\* "/".join(parts)
RECURSIVE join(_)
join(parts) ==
  IF parts = <<>> THEN <<>>
  ELSE IF Len(parts) = 1 THEN parts[1]
  ELSE parts[1] \o << "/" >> \o join(Tail(parts))

\* ------------------------------------------------------- string constants

CC_ == << "c", "c", "_" >>
CC_LIBRARY == CC_ \o << "l", "i", "b", "r", "a", "r", "y" >>
CC_TEST == CC_ \o << "t", "e", "s", "t" >>
FILEGROUP == << "f", "i", "l", "e", "g", "r", "o", "u", "p" >>

\* "//absl/", the prefix get_spec_name requires, and its length, the 7 of
\* label[7:]
ABSL_PREFIX == << "/", "/", "a", "b", "s", "l", "/" >>
PrefixLen == 7
ABSEIL == << "a", "b", "s", "e", "i", "l" >>

\* --------------------------------------------------------- pure functions

\* normalize_paths: path.lstrip("/").replace(":", "/") for every path
normalize_path(path) == replace(lstrip(path, "/"), ":", "/")

normalize_paths(paths) == [i \in 1..Len(paths) |-> normalize_path(paths[i])]

\* A get_spec_var without the special case of depth 0.
get_spec_var_suffixed(depth) == << "s" >> \o format_int(depth)

\* get_spec_var(depth)
get_spec_var(depth) ==
  IF depth = 0 THEN << "s" >> ELSE << "s" >> \o format_int(depth)

\* A get_spec_name without its assert.
get_spec_name_unchecked(label) ==
  [ok |-> TRUE,
   name |-> ABSEIL \o << "/" >> \o SubSeq(label, PrefixLen + 1, Len(label))]

\* get_spec_name(label): ok is FALSE when the assert fails.
get_spec_name(label) ==
  IF startswith(label, ABSL_PREFIX)
  THEN [ok |-> TRUE,
        name |-> ABSEIL \o << "/" >> \o SubSeq(label, PrefixLen + 1, Len(label))]
  ELSE [ok |-> FALSE, name |-> <<>>]

\* ------------------------------------------------------------- data model

\* Python's None where a string is expected, and a present string.
None == [none |-> TRUE, str |-> ""]
Some(s) == [none |-> FALSE, str |-> s]

\* Rule = namedtuple("Rule", "type name package srcs hdrs deps visibility
\* testonly")
Rule(type, name, package, srcs, hdrs, deps, visibility, testonly) ==
  [type |-> type, name |-> name, package |-> package, srcs |-> srcs,
   hdrs |-> hdrs, deps |-> deps, visibility |-> visibility,
   testonly |-> testonly]

\* parse_rule(elem, package): elem is a <rule> element of the query output,
\* its attributes already decoded by get_elem_value (a missing list is
\* <<>>, a missing boolean FALSE, which is what "or []" and "or False" give).
parse_rule(elem, package) ==
  Rule(elem.class, elem.name, package, normalize_paths(elem.srcs),
       normalize_paths(elem.hdrs), elem.deps, elem.visibility, elem.testonly)

\* read_build(package), after check_output returned `root`: the rule
\* elements whose class starts with "cc_", parsed, in document order.
RECURSIVE read_build(_, _)
read_build(root, package) ==
  IF root = <<>> THEN <<>>
  ELSE LET elem == Head(root)
           rest == read_build(Tail(root), package)
       IN  IF elem.tag = "rule" /\ startswith(elem.class, CC_)
           THEN << parse_rule(elem, package) >> \o rest
           ELSE rest

\* A filter that forgets testonly.
eligible_any_library(r) == r.type = CC_LIBRARY

\* The lambda of main's filter(): r.type == "cc_library" and not r.testonly
eligible(r) == r.type = CC_LIBRARY /\ ~r.testonly

\* filter(eligible, rules)
filter_rules(rs) == SelectSeq(rs, eligible)

\* -------------------------------------------------------------- rule tree
\* rule_dir, the nested dict of build_rule_directory, is kept as the list of
\* its nodes in insertion order (a Python dict iterates in insertion order).
\* A node is named by its path of keys from the root dict, which is <<>>;
\* it is a dict or a Rule.  A reference to a dict (the local `cur`) is the
\* dict's path.

NoRule == Rule(<<>>, <<>>, <<>>, <<>>, <<>>, <<>>, <<>>, FALSE)

DictNode(p) == [path |-> p, kind |-> "dict", rule |-> NoRule]
RuleNode(p, r) == [path |-> p, kind |-> "rule", rule |-> r]

HasNode(tree, p) == \E i \in 1..Len(tree) : tree[i].path = p

NodeAt(tree, p) ==
  IF p = <<>> THEN DictNode(<<>>)
  ELSE tree[CHOOSE i \in 1..Len(tree) : tree[i].path = p]

IsPrefix(p, q) == Len(p) <= Len(q) /\ SubSeq(q, 1, Len(p)) = p

\* cur.setdefault(frag, {}): the reference it returns and the tree after
\* it.  A Rule has no setdefault.
setdefault(tree, cur, frag) ==
  LET p == Append(cur, frag)
  IN  IF NodeAt(tree, cur).kind # "dict"
      THEN [err |-> "AttributeError", tree |-> tree, cur |-> cur]
      ELSE IF HasNode(tree, p)
      THEN [err |-> "none", tree |-> tree, cur |-> p]
      ELSE [err |-> "none", tree |-> Append(tree, DictNode(p)), cur |-> p]

\* cur[name] = rule.  A Rule is a tuple and supports no item assignment;
\* an existing key keeps its place and loses its old value, with all that
\* was below it.
setitem(tree, cur, name, rule) ==
  LET p == Append(cur, name)
  IN  IF NodeAt(tree, cur).kind # "dict"
      THEN [err |-> "TypeError", tree |-> tree]
      ELSE IF HasNode(tree, p)
      THEN [err |-> "none",
            tree |-> SelectSeq(
                       [i \in 1..Len(tree) |->
                          IF tree[i].path = p THEN RuleNode(p, rule) ELSE tree[i]],
                       LAMBDA n : ~(IsPrefix(p, n.path) /\ n.path # p))]
      ELSE [err |-> "none", tree |-> Append(tree, RuleNode(p, rule))]

\* for frag in frags: cur = cur.setdefault(frag, {})
RECURSIVE descend(_, _, _)
descend(tree, cur, frags) ==
  IF frags = <<>> THEN [err |-> "none", tree |-> tree, cur |-> cur]
  ELSE LET r == setdefault(tree, cur, Head(frags))
       IN  IF r.err # "none" THEN r ELSE descend(r.tree, r.cur, Tail(frags))

\* One iteration of build_rule_directory's loop over the rules.
insert_rule(tree, rule) ==
  LET sn == get_spec_name(rule.package)
  IN  IF ~sn.ok THEN [err |-> "AssertionError", tree |-> tree]
      ELSE LET d == descend(tree, <<>>, split(sn.name, "/"))
           IN  IF d.err # "none" THEN [err |-> d.err, tree |-> tree]
               ELSE setitem(d.tree, d.cur, rule.name, rule)

\* build_rule_directory(rules): the tree, or the exception that ended it.
RECURSIVE build_from(_, _)
build_from(tree, rs) ==
  IF rs = <<>> THEN [err |-> "none", tree |-> tree]
  ELSE LET r == insert_rule(tree, Head(rs))
       IN  IF r.err # "none" THEN r ELSE build_from(r.tree, Tail(rs))

build_rule_directory(rs) == build_from(<<>>, rs)

\* ----------------------------------------------------------- rendered text
\* One record per f.write call.  indent is the number of leading spaces.

Line(kind, indent, var, field, value, var1) ==
  [kind |-> kind, indent |-> indent, var |-> var, field |-> field,
   value |-> value, var1 |-> var1, version |-> "", tag |-> ""]

\* SPEC_TEMPLATE with ${version} and ${tag} substituted by
\* re.sub(..., lambda x: args[x.group(1)], ...); re.sub takes a None
\* returned by the function as the empty string.  The template opens the
\* block "Pod::Spec.new do |s|".
SpecHeader(args) ==
  [kind |-> "header", indent |-> 0, var |-> <<>>, field |-> <<>>,
   value |-> <<>>, var1 |-> << "s" >>,
   version |-> IF args.version.none THEN "" ELSE args.version.str,
   tag |-> IF args.tag.none THEN "" ELSE args.tag.str]

\* "{indent}{var0}.subspec '{key}' do |{var1}|\n"
SubspecLine(indent, var0, key, var1) ==
  Line("subspec", indent, var0, <<>>, key, var1)

\* "{indent}end\n"
EndLine(indent) == Line("end", indent, <<>>, <<>>, <<>>, <<>>)

\* "{indent}{var}.dependency '{dep}'\n"
DepLine(indent, var, dep) == Line("dependency", indent, var, <<>>, dep, <<>>)

PUBLIC_HEADER_FILES ==
  << ".", "p", "u", "b", "l", "i", "c", "_", "h", "e", "a", "d", "e", "r",
     "_", "f", "i", "l", "e", "s", " ", "=", " " >>
SOURCE_FILES ==
  << ".", "s", "o", "u", "r", "c", "e", "_", "f", "i", "l", "e", "s", " ",
     "=", " " >>

\* write_list(f, leading, values), leading being indent spaces, var and
\* field: the first value after leading, the others after len(leading)
\* spaces.
write_list(indent, var, field, values) ==
  << Line("list", indent, var, field, values[1], <<>>) >>
  \o [i \in 1..(Len(values) - 1) |->
        Line("cont", indent + Len(var) + Len(field), <<>>, <<>>,
             values[i + 1], <<>>)]

\* A dependency loop that leaves the label's colon in place.
RECURSIVE write_deps_colon(_, _, _)
write_deps_colon(deps, indent, var) ==
  IF deps = <<>> THEN [err |-> "none", out |-> <<>>]
  ELSE LET sn == get_spec_name(Head(deps))
       IN  IF ~sn.ok THEN [err |-> "AssertionError", out |-> <<>>]
           ELSE LET rest == write_deps_colon(Tail(deps), indent, var)
                IN  [err |-> rest.err,
                     out |-> << DepLine(indent, var, sn.name) >> \o rest.out]

\* The loop over sorted(rule.deps) of write_podspec_rule: the lines written
\* until the loop ends or get_spec_name's assert fails.
RECURSIVE write_deps(_, _, _)
write_deps(deps, indent, var) ==
  IF deps = <<>> THEN [err |-> "none", out |-> <<>>]
  ELSE LET sn == get_spec_name(replace(Head(deps), ":", "/"))
       IN  IF ~sn.ok THEN [err |-> "AssertionError", out |-> <<>>]
           ELSE LET rest == write_deps(Tail(deps), indent, var)
                IN  [err |-> rest.err,
                     out |-> << DepLine(indent, var, sn.name) >> \o rest.out]

\* write_podspec_rule(f, rule, depth)
write_podspec_rule(rule, depth) ==
  LET indent == 2 * (depth + 1)
      spec_var == get_spec_var(depth)
      hdrs == IF rule.hdrs # <<>>
              THEN write_list(indent, spec_var, PUBLIC_HEADER_FILES,
                              sorted(rule.hdrs))
              ELSE <<>>
      srcs == IF rule.srcs # <<>>
              THEN write_list(indent, spec_var, SOURCE_FILES,
                              sorted(rule.srcs))
              ELSE <<>>
      deps == write_deps(sorted(rule.deps), indent, spec_var)
  IN  [err |-> deps.err, out |-> hdrs \o srcs \o deps.out]

\* cur_map.items() of the dict at path p: its nodes in insertion order
items(tree, p) ==
  SelectSeq(tree, LAMBDA n : Len(n.path) = Len(p) + 1 /\ IsPrefix(p, n.path))

NodeKey(n) == n.path[Len(n.path)]

\* Iterating cur_map.items() as it is, in insertion order.
unsorted_items(its) == its

\* sorted(cur_map.items()): by key, the keys of a dict being distinct
sorted_items(its) ==
  SortSeq(its, LAMBDA a, b : StrLess(NodeKey(a), NodeKey(b)))

\* write_podspec_map(f, cur_map, depth), cur_map being the dict at path p:
\* the lines written until it returns or raises.
RECURSIVE write_podspec_map(_, _, _)
RECURSIVE write_items(_, _, _)
write_items(tree, its, depth) ==
  IF its = <<>> THEN [err |-> "none", out |-> <<>>]
  ELSE LET n == Head(its)
           indent == 2 * (depth + 1)
           open == SubspecLine(indent, get_spec_var(depth), NodeKey(n),
                               get_spec_var(depth + 1))
           body == IF n.kind = "dict"
                   THEN write_podspec_map(tree, n.path, depth + 1)
                   ELSE write_podspec_rule(n.rule, depth + 1)
       IN  IF body.err # "none"
           THEN [err |-> body.err, out |-> << open >> \o body.out]
           ELSE LET rest == write_items(tree, Tail(its), depth)
                IN  [err |-> rest.err,
                     out |-> << open >> \o body.out \o << EndLine(indent) >>
                             \o rest.out]

write_podspec_map(tree, p, depth) ==
  write_items(tree, sorted_items(items(tree, p)), depth)

\* ------------------------------------------------------------ environment
\* The directory tree under "absl" and what bazel query returns for each
\* package.

D_ABSL == << "a", "b", "s", "l" >>
D_F == D_ABSL \o << "/", "f" >>
D_FB == D_F \o << "/", "b" >>
D_G == D_ABSL \o << "/", "g" >>

Dirs == {D_ABSL, D_F, D_FB, D_G}

\* os.path.join(cur, name)
path_join(cur, name) == cur \o << "/" >> \o name

\* The subdirectories of a directory, as os.walk finds them.
Subdirs(d) == {e \in Dirs : \E c \in {<< "f" >>, << "g" >>, << "b" >>} :
                 e = path_join(d, c)}

\* "//" + cur
PackageOf(cur) == << "/", "/" >> \o cur

LabelOf(cur, name) == PackageOf(cur) \o << ":" >> \o name

\* A <rule> element of the query output, or another element of it.
Elem(dir, tag, class, name, srcs, hdrs, deps, testonly) ==
  [dir |-> dir, tag |-> tag, class |-> class, name |-> name, srcs |-> srcs,
   hdrs |-> hdrs, deps |-> deps, visibility |-> <<>>, testonly |-> testonly]

\* The elements a BUILD.bazel of the run may declare, in document order.
Candidates ==
  << Elem(D_ABSL, "rule", CC_LIBRARY, << "r" >>,
          << LabelOf(D_ABSL, << "r", ".", "c" >>) >>, <<>>, <<>>, FALSE),
     Elem(D_ABSL, "rule", CC_TEST, << "t" >>,
          << LabelOf(D_ABSL, << "t", ".", "c" >>) >>, <<>>, <<>>, FALSE),
     Elem(D_F, "rule", CC_LIBRARY, << "b" >>,
          << LabelOf(D_F, << "b", ".", "c" >>) >>,
          << LabelOf(D_F, << "b", ".", "h" >>),
             LabelOf(D_F, << "a", ".", "h" >>) >>,
          <<>>, FALSE),
     Elem(D_F, "rule", CC_LIBRARY, << "x" >>,
          <<>>, << LabelOf(D_F, << "x", ".", "h" >>) >>,
          << LabelOf(D_FB, << "x" >>) >>, FALSE),
     Elem(D_F, "rule", CC_LIBRARY, << "m" >>,
          << LabelOf(D_F, << "m", ".", "c" >>) >>, <<>>,
          << LabelOf(D_F, << "x" >>) >>, TRUE),
     Elem(D_FB, "rule", CC_LIBRARY, << "x" >>,
          << LabelOf(D_FB, << "x", ".", "c" >>) >>, <<>>,
          << LabelOf(D_G, << "y" >>), LabelOf(D_F, << "x" >>) >>, FALSE),
     Elem(D_G, "rule", CC_LIBRARY, << "y" >>,
          << LabelOf(D_G, << "y", ".", "c" >>),
             LabelOf(D_G, << "a", ".", "c" >>) >>,
          <<>>, << LabelOf(D_F, << "x" >>) >>, FALSE),
     Elem(D_G, "rule", CC_LIBRARY, << "e" >>,
          <<>>, << LabelOf(D_G, << "e", ".", "h" >>) >>,
          << LabelOf(D_G, << "y" >>), << "@", "g", "/", "/", ":", "t" >> >>,
          FALSE),
     Elem(D_G, "rule", CC_TEST, << "t" >>,
          << LabelOf(D_G, << "t", ".", "c" >>) >>, <<>>,
          << LabelOf(D_G, << "y" >>) >>, FALSE),
     Elem(D_G, "source-file", FILEGROUP, << "d" >>, <<>>, <<>>, <<>>, FALSE) >>

\* The query output for directory d when the BUILD.bazel files declare the
\* candidates numbered in chosen.
RootOf(chosen, d) ==
  SelectSeq([i \in 1..Len(Candidates) |->
               IF i \in chosen THEN Candidates[i]
               ELSE Elem(<<>>, "", <<>>, <<>>, <<>>, <<>>, <<>>, FALSE)],
            LAMBDA e : e.dir = d)

Perms(S) ==
  {p \in [1..Cardinality(S) -> S] :
     \A i, j \in 1..Cardinality(S) : i # j => p[i] # p[j]}

\* The text of an abseil.podspec left by an earlier run.
OldText == Line("old", 0, <<>>, <<>>, <<>>, <<>>)

\* ------------------------------------------------------------------ state

VARIABLES
  pc,         \* where main() is: "parse", "walk", "open", "parse2", "build",
              \* "header", "map", "end", "close", "done"; "idle": not run
  err,        \* the exception that ended the run, or "none"
  argv,       \* the command line: version and tag (None when -t is absent)
  args,       \* main's local args, the first parse_args() result
  passed,     \* the args mapping write_podspec receives
  fs,         \* per directory: has it a BUILD.bazel, and its query output
  walk,       \* os.walk: the directories still to yield, next first
  queried,    \* the bazel query runs so far: package and exit status
  collected,  \* collect_rules' local list `rules`
  rules,      \* main's local `rules`, the filtered list
  file,       \* abseil.podspec: exists, open, content (the writes)
  rule_dir,   \* write_podspec's rule tree
  nhist       \* normalize_paths: the input list and each result after it

vars ==
  << pc, err, argv, args, passed, fs, walk, queried, collected, rules, file,
     rule_dir, nhist >>

NoArgs == [version |-> None, tag |-> None]

\* The command lines of the runs: without -t, with -t, without -v.
CommandLines ==
  {<< "-v", "1.2.3" >>, << "--version", "1.2.3", "-t", "v1" >>,
   << "-t", "v1" >>}

Files0 ==
  {[exists |-> FALSE, open |-> FALSE, content |-> <<>>],
   [exists |-> TRUE, open |-> FALSE, content |-> << OldText >>]}

Init ==
  /\ pc = "parse"
  /\ err = "none"
  /\ argv \in CommandLines
  /\ args = NoArgs
  /\ passed = NoArgs
  /\ \E chosen \in SUBSET (1..Len(Candidates)) :
       /\ Cardinality(chosen) <= MaxRules
       /\ fs = [d \in Dirs |->
                  [exists |-> RootOf(chosen, d) # <<>>,
                   root |-> RootOf(chosen, d)]]
  /\ walk = << D_ABSL >>
  /\ queried = <<>>
  /\ collected = <<>>
  /\ rules = <<>>
  /\ file \in Files0
  /\ rule_dir = <<>>
  /\ nhist = <<>>

\* ----------------------------------------------------------------- main()

\* parser.parse_args(): the value after -v/--version (required) and the
\* one after -t/--tag (default None).  ok is FALSE when argparse exits with
\* a usage error.
OptionValue(av, short, long) ==
  LET at == {i \in 1..(Len(av) - 1) : av[i] = short \/ av[i] = long}
  IN  IF at = {} THEN None
      ELSE Some(av[(CHOOSE i \in at : \A j \in at : j <= i) + 1])

parse_args(av) ==
  LET version == OptionValue(av, "-v", "--version")
  IN  [ok |-> ~version.none,
       ns |-> [version |-> version, tag |-> OptionValue(av, "-t", "--tag")]]

\* if args.tag is None: args.tag = args.version
DefaultTag(ns) == [ns EXCEPT !.tag = IF ns.tag.none THEN ns.version ELSE @]

\* args = parser.parse_args(), then the tag default
ParseArgs ==
  /\ pc = "parse" /\ err = "none"
  /\ LET r == parse_args(argv)
     IN  IF r.ok
         THEN /\ args' = DefaultTag(r.ns)
              /\ pc' = "walk"
              /\ UNCHANGED err
         ELSE /\ err' = "SystemExit"
              /\ UNCHANGED << pc, args >>
  /\ UNCHANGED << argv, passed, fs, walk, queried, collected, rules, file,
                  rule_dir, nhist >>

\* One run of ["bazel", "query", package + ":all", "--output", "xml"]
Query(package, status) == [package |-> package, status |-> status]

\* os.walk yields cur before its subdirectories, which it lists in an order
\* of the file system's choosing.
WalkNext(order) ==
  /\ order \in Perms(Subdirs(Head(walk)))
  /\ walk' = order \o Tail(walk)

\* collect_rules: a directory without BUILD.bazel
WalkNoBuild ==
  /\ pc = "walk" /\ err = "none" /\ walk # <<>>
  /\ ~fs[Head(walk)].exists
  /\ \E order \in Perms(Subdirs(Head(walk))) : WalkNext(order)
  /\ UNCHANGED << pc, err, argv, args, passed, fs, queried, collected, rules,
                  file, rule_dir, nhist >>

\* collect_rules: rules.extend(read_build("//" + cur)), bazel query
\* exiting with status 0
ReadBuildOk ==
  /\ pc = "walk" /\ err = "none" /\ walk # <<>>
  /\ fs[Head(walk)].exists
  /\ \E order \in Perms(Subdirs(Head(walk))) : WalkNext(order)
  /\ queried' = Append(queried, Query(PackageOf(Head(walk)), 0))
  /\ collected' =
       collected \o read_build(fs[Head(walk)].root, PackageOf(Head(walk)))
  /\ UNCHANGED << pc, err, argv, args, passed, fs, rules, file, rule_dir,
                  nhist >>

\* A collect_rules that catches the query's failure and walks on.
ReadBuildFail_swallowed ==
  /\ pc = "walk" /\ err = "none" /\ walk # <<>>
  /\ fs[Head(walk)].exists
  /\ \E order \in Perms(Subdirs(Head(walk))) : WalkNext(order)
  /\ queried' = Append(queried, Query(PackageOf(Head(walk)), 1))
  /\ UNCHANGED << pc, err, argv, args, passed, fs, collected, rules, file,
                  rule_dir, nhist >>

\* collect_rules: bazel query exiting non-zero; check_output raises
\* CalledProcessError, which nothing catches.
ReadBuildFail ==
  /\ pc = "walk" /\ err = "none" /\ walk # <<>>
  /\ fs[Head(walk)].exists
  /\ queried' = Append(queried, Query(PackageOf(Head(walk)), 1))
  /\ err' = "CalledProcessError"
  /\ UNCHANGED << pc, argv, args, passed, fs, walk, collected, rules, file,
                  rule_dir, nhist >>

\* collect_rules returns; rules = filter(..., collect_rules("absl")).  The
\* filter object is consumed by build_rule_directory's loop; its lambda
\* reads the rule only, so filtering here gives the same list.
FilterRules ==
  /\ pc = "walk" /\ err = "none" /\ walk = <<>>
  /\ rules' = filter_rules(collected)
  /\ pc' = "open"
  /\ UNCHANGED << err, argv, args, passed, fs, walk, queried, collected,
                  file, rule_dir, nhist >>

\* with open("abseil.podspec", "wt") as f: creates or truncates the file
OpenFile ==
  /\ pc = "open" /\ err = "none"
  /\ file' = [exists |-> TRUE, open |-> TRUE, content |-> <<>>]
  /\ pc' = "parse2"
  /\ UNCHANGED << err, argv, args, passed, fs, walk, queried, collected,
                  rules, rule_dir, nhist >>

\* write_podspec(f, rules, vars(parser.parse_args())): the mapping passed
\* on is a new parse of the command line.
PassedArgs(av) == parse_args(av).ns

ParseAgain ==
  /\ pc = "parse2" /\ err = "none"
  /\ passed' = PassedArgs(argv)
  /\ pc' = "build"
  /\ UNCHANGED << err, argv, args, fs, walk, queried, collected, rules, file,
                  rule_dir, nhist >>

Closed(f) == [f EXCEPT !.open = FALSE]

\* write_podspec: rule_dir = build_rule_directory(rules)["abseil"]
BuildResult(rs) ==
  LET r == build_rule_directory(rs)
  IN  IF r.err # "none" THEN r
      ELSE IF ~HasNode(r.tree, << ABSEIL >>)
      THEN [err |-> "KeyError", tree |-> r.tree]
      ELSE r

BuildRuleDirectory ==
  /\ pc = "build" /\ err = "none"
  /\ LET r == BuildResult(rules)
     IN  IF r.err # "none"
         THEN /\ err' = r.err
              /\ file' = Closed(file)
              /\ UNCHANGED << pc, rule_dir >>
         ELSE /\ rule_dir' = r.tree
              /\ pc' = "header"
              /\ UNCHANGED << err, file >>
  /\ UNCHANGED << argv, args, passed, fs, walk, queried, collected, rules,
                  nhist >>

\* write_podspec: f.write(spec)
WriteHeader ==
  /\ pc = "header" /\ err = "none"
  /\ file' = [file EXCEPT !.content = Append(@, SpecHeader(passed))]
  /\ pc' = "map"
  /\ UNCHANGED << err, argv, args, passed, fs, walk, queried, collected,
                  rules, rule_dir, nhist >>

\* write_podspec: write_podspec_map(f, rule_dir, 0)
WriteMap ==
  /\ pc = "map" /\ err = "none"
  /\ LET r == write_podspec_map(rule_dir, << ABSEIL >>, 0)
     IN  IF r.err # "none"
         THEN /\ err' = r.err
              /\ file' = Closed([file EXCEPT !.content = @ \o r.out])
              /\ UNCHANGED pc
         ELSE /\ file' = [file EXCEPT !.content = @ \o r.out]
              /\ pc' = "end"
              /\ UNCHANGED err
  /\ UNCHANGED << argv, args, passed, fs, walk, queried, collected, rules,
                  rule_dir, nhist >>

\* write_podspec: f.write("end\n")
WriteEnd ==
  /\ pc = "end" /\ err = "none"
  /\ file' = [file EXCEPT !.content = Append(@, EndLine(0))]
  /\ pc' = "close"
  /\ UNCHANGED << err, argv, args, passed, fs, walk, queried, collected,
                  rules, rule_dir, nhist >>

\* The with statement closes f; main returns.
CloseFile ==
  /\ pc = "close" /\ err = "none"
  /\ file' = Closed(file)
  /\ pc' = "done"
  /\ UNCHANGED << err, argv, args, passed, fs, walk, queried, collected,
                  rules, rule_dir, nhist >>

Next ==
  \/ ParseArgs
  \/ WalkNoBuild
  \/ ReadBuildOk
  \/ ReadBuildFail
  \/ FilterRules
  \/ OpenFile
  \/ ParseAgain
  \/ BuildRuleDirectory
  \/ WriteHeader
  \/ WriteMap
  \/ WriteEnd
  \/ CloseFile

Spec == Init /\ [][Next]_vars

\* The run is over: main returned or an exception ended it.
Terminated == pc = "done" \/ err # "none"

\* write_podspec(f, rules, args) as a whole: the exception that ends it, or
\* "none", and what it has written to f by then.
write_podspec(rs, a) ==
  LET b == BuildResult(rs)
      m == write_podspec_map(b.tree, << ABSEIL >>, 0)
  IN  IF b.err # "none" THEN [err |-> b.err, out |-> <<>>]
      ELSE IF m.err # "none"
      THEN [err |-> m.err, out |-> << SpecHeader(a) >> \o m.out]
      ELSE [err |-> "none",
            out |-> << SpecHeader(a) >> \o m.out \o << EndLine(0) >>]

\* ------------------------------------------------------- normalize_paths
\* normalize_paths applied to a list of one path, and again to its result.

MaxCalls == 2

PathChars == {"/", ":", "b"}

Paths == UNION {[1..n -> PathChars] : n \in 0..MaxPathLen}

InitNorm ==
  /\ pc = "idle"
  /\ err = "none"
  /\ argv = <<>>
  /\ args = NoArgs
  /\ passed = NoArgs
  /\ fs = [d \in Dirs |-> [exists |-> FALSE, root |-> <<>>]]
  /\ walk = <<>>
  /\ queried = <<>>
  /\ collected = <<>>
  /\ rules = <<>>
  /\ file = [exists |-> FALSE, open |-> FALSE, content |-> <<>>]
  /\ rule_dir = <<>>
  /\ \E path \in Paths : nhist = << << path >> >>

Normalize ==
  /\ pc = "idle"
  /\ Len(nhist) <= MaxCalls
  /\ nhist' = Append(nhist, normalize_paths(nhist[Len(nhist)]))
  /\ UNCHANGED << pc, err, argv, args, passed, fs, walk, queried, collected,
                  rules, file, rule_dir >>

NextNorm == Normalize

SpecNorm == InitNorm /\ [][NextNorm]_vars

\* ------------------------------------------------ reading the written text

\* The blocks open after the first i writes of content c, outermost first:
\* the header opens the block of the pod 'abseil', a subspec line opens the
\* block of its key, an end line closes the innermost open block.
RECURSIVE StackAfter(_, _)
StackAfter(c, i) ==
  IF i = 0 THEN <<>>
  ELSE LET st == StackAfter(c, i - 1)
           l == c[i]
       IN  CASE l.kind = "header" ->
                  Append(st, [key |-> ABSEIL, var |-> l.var1, indent |-> l.indent])
             [] l.kind = "subspec" ->
                  Append(st, [key |-> l.value, var |-> l.var1, indent |-> l.indent])
             [] l.kind = "end" ->
                  IF st = <<>> THEN <<>> ELSE SubSeq(st, 1, Len(st) - 1)
             [] OTHER -> st

KeysOf(st) == [j \in 1..Len(st) |-> st[j].key]

\* The key paths, from 'abseil' down, of the subspec blocks of content c.
BlockChains(c) ==
  {KeysOf(StackAfter(c, i)) : i \in {j \in 1..Len(c) : c[j].kind = "subspec"}}

\* The dependency lines written directly inside the block with key path p,
\* in the order written.
DepLinesIn(c, p) ==
  LET at == SelectSeq([i \in 1..Len(c) |-> i],
                      LAMBDA i : /\ c[i].kind = "dependency"
                                 /\ KeysOf(StackAfter(c, i)) = p)
  IN  [k \in 1..Len(at) |-> c[at[k]].value]

Headers(c) == {i \in 1..Len(c) : c[i].kind = "header"}

InSeq(x, xs) == \E i \in 1..Len(xs) : xs[i] = x

\* The tree nodes that hold rule r.
NodesOf(tree, r) ==
  {i \in 1..Len(tree) : tree[i].kind = "rule" /\ tree[i].rule = r}

\* --------------------------------------------------------------- claims

\* C1: run with version V and no -t/--tag, the header written to the
\* manifest carries the tag V.
C1_TagDefaultsToVersion ==
  \A i \in Headers(file.content) :
    (~InSeq("-t", argv) /\ ~InSeq("--tag", argv)) =>
      file.content[i].tag = file.content[i].version

\* C4: normalize_paths is idempotent: applied to its own result it returns
\* that result unchanged.
C4_NormalizeIdempotent == Len(nhist) >= 3 => nhist[3] = nhist[2]

\* C6: once a bazel query has exited non-zero the run has failed with
\* CalledProcessError, that query was the last one and its package was
\* queried once, and abseil.podspec is as it was before the run: not
\* created, not truncated, not written.
C6_QueryFailureLeavesFile ==
  \A i \in 1..Len(queried) :
    queried[i].status # 0 =>
      /\ err = "CalledProcessError"
      /\ i = Len(queried)
      /\ \A j \in 1..Len(queried) : queried[j].package = queried[i].package => j = i
      /\ file \in Files0

C6_Witness ==
  /\ err = "CalledProcessError"
  /\ Len(queried) >= 2
  /\ queried[Len(queried)].status # 0
  /\ collected # <<>>
  /\ file.exists

\* The orders in which another run may enumerate the rules of list coll:
\* os.walk yields a package before the packages below it; siblings, and the
\* rules of one package, come in any order.
Below(pkg, anc) == startswith(pkg, anc \o << "/" >>)

WalkOrders(coll) ==
  {[k \in 1..Len(coll) |-> coll[q[k]]] :
     q \in {o \in Perms(1..Len(coll)) :
              \A i, j \in 1..Len(coll) :
                i < j => ~Below(coll[o[i]].package, coll[o[j]].package)}}

\* What main did after collect_rules returned.
RanWritePodspec == Terminated /\ pc \in {"build", "map", "done"}

\* C2: the outcome of a run (the text written and the way it ended) is the
\* one every other enumeration order of the same rules gives.
C2_Deterministic ==
  RanWritePodspec =>
    \A coll \in WalkOrders(collected) :
      write_podspec(filter_rules(coll), passed)
        = [err |-> err, out |-> file.content]

C2_Witness ==
  /\ pc = "done"
  /\ queried # <<>>
  /\ queried[1].package = PackageOf(D_G)
  /\ \E i, j \in 1..Len(rules) :
       rules[i].package = PackageOf(D_G) /\ rules[j].package = PackageOf(D_F)
  /\ Cardinality(WalkOrders(collected)) >= 2

\* Rule r1's name is a key of the dict in which the package of r2, or a
\* package above it, has its dict.
Collides(r1, r2) ==
  LET k == r1.package \o << "/" >> \o r1.name
  IN  r2.package = k \/ Below(r2.package, k)

\* C3: when a rule's name collides with the key of another rule's package,
\* both rules are in the tree after build_rule_directory and both have
\* their block in the manifest.
C3_CollisionKeepsBoth ==
  \A i, j \in 1..Len(rules) :
    (RanWritePodspec /\ Collides(rules[i], rules[j])) =>
      \A r \in {rules[i], rules[j]} :
        \E n \in NodesOf(rule_dir, r) :
          rule_dir[n].path \in BlockChains(file.content)

\* C5: every rule in the tree, and so every leaf block of the manifest, is
\* a collected rule of type cc_library that is not testonly; every block
\* written is a node of that tree and every field or dependency line lies
\* in the block of a rule node.
C5_OnlyEligibleRendered ==
  /\ \A n \in 1..Len(rule_dir) :
       rule_dir[n].kind = "rule" =>
         /\ rule_dir[n].rule.type = CC_LIBRARY
         /\ ~rule_dir[n].rule.testonly
         /\ InSeq(rule_dir[n].rule, collected)
  /\ BlockChains(file.content) \subseteq {rule_dir[n].path : n \in 1..Len(rule_dir)}
  /\ \A j \in 1..Len(file.content) :
       file.content[j].kind \in {"list", "cont", "dependency"} =>
         \E n \in 1..Len(rule_dir) :
           /\ rule_dir[n].kind = "rule"
           /\ rule_dir[n].path = KeysOf(StackAfter(file.content, j))

C5_Witness ==
  /\ pc = "done"
  /\ \E i \in 1..Len(collected) : collected[i].testonly
  /\ \E i \in 1..Len(collected) : collected[i].type = CC_TEST
  /\ \E j \in 1..Len(file.content) : file.content[j].kind = "list"

\* Every package and dependency label of the rules starts with "//absl/".
LabelsUnderAbsl(rs) ==
  \A i \in 1..Len(rs) :
    /\ startswith(rs[i].package, ABSL_PREFIX)
    /\ \A k \in 1..Len(rs[i].deps) : startswith(rs[i].deps[k], ABSL_PREFIX)

\* The key path of package pkg: 'abseil', then the segments after "//absl/".
PackageChain(pkg) ==
  << ABSEIL >> \o split(SubSeq(pkg, Len(ABSL_PREFIX) + 1, Len(pkg)), "/")

\* C7: with an eligible rule in a package and another in a package directly
\* below it, the run completes and the manifest nests the lower package's
\* block inside the upper one's, each rule's block inside its package's.
C7_NestedPackages ==
  \A i, j \in 1..Len(rules) :
    ( /\ RanWritePodspec
      /\ LabelsUnderAbsl(rules)
      /\ Below(rules[j].package, rules[i].package) ) =>
        /\ pc = "done"
        /\ IsPrefix(PackageChain(rules[i].package), PackageChain(rules[j].package))
        /\ { PackageChain(rules[i].package),
             PackageChain(rules[j].package),
             Append(PackageChain(rules[i].package), rules[i].name),
             Append(PackageChain(rules[j].package), rules[j].name) }
             \subseteq BlockChains(file.content)

\* C8: in a completed manifest every rule block holds one dependency line
\* per dependency label, in the order of the sorted labels, and the line of
\* a label //absl/<pkg>:<name> that names an eligible rule is the slash-
\* joined key path of the block in which that rule is rendered.
C8_DependenciesResolve ==
  pc = "done" =>
    \A n \in 1..Len(rule_dir) :
      rule_dir[n].kind = "rule" =>
        LET r == rule_dir[n].rule
            lines == DepLinesIn(file.content, rule_dir[n].path)
        IN  /\ Len(lines) = Len(r.deps)
            /\ \A k \in 1..Len(r.deps) : \A t \in 1..Len(rules) :
                 sorted(r.deps)[k]
                     = rules[t].package \o << ":" >> \o rules[t].name =>
                   \E m \in NodesOf(rule_dir, rules[t]) :
                     /\ lines[k] = join(rule_dir[m].path)
                     /\ rule_dir[m].path \in BlockChains(file.content)

C8_Witness ==
  /\ pc = "done"
  /\ \E i, t, u \in 1..Len(rules) :
       /\ t # u
       /\ Len(rules[i].deps) = 2
       /\ rules[i].deps[1] = rules[t].package \o << ":" >> \o rules[t].name
       /\ rules[i].deps[2] = rules[u].package \o << ":" >> \o rules[u].name
       /\ sorted(rules[i].deps) # rules[i].deps

\* The scope variable of nesting depth d, as the claim names it.
ScopeVar(d) == IF d = 0 THEN << "s" >> ELSE << "s" >> \o format_int(d)

\* Write j of content c fits the blocks open before it.
LineFits(c, j) ==
  LET st == StackAfter(c, j - 1)
      l == c[j]
      top == st[Len(st)]
  IN  CASE l.kind = "header" -> j = 1 /\ l.var1 = ScopeVar(0)
        [] l.kind = "subspec" ->
             /\ st # <<>>
             /\ l.indent = top.indent + 2
             /\ l.var = top.var
             /\ l.var = ScopeVar(Len(st) - 1)
             /\ l.var1 = ScopeVar(Len(st))
        [] l.kind \in {"list", "dependency"} ->
             /\ st # <<>>
             /\ l.indent = top.indent + 2
             /\ l.var = top.var
        [] l.kind = "cont" -> j > 1 /\ c[j - 1].kind \in {"list", "cont"}
        [] l.kind = "end" -> st # <<>> /\ l.indent = top.indent
        [] OTHER -> TRUE

\* C9: every line written fits the blocks open before it (an end closes the
\* innermost block at its indentation, a line inside a block uses that
\* block's scope variable, 's' at depth 0 and 's<d>' at depth d), and in a
\* completed manifest every block is closed.
C9_BlocksWellFormed ==
  /\ \A j \in 1..Len(file.content) : LineFits(file.content, j)
  /\ pc = "done" => StackAfter(file.content, Len(file.content)) = <<>>

C9_Witness ==
  /\ pc = "done"
  /\ \E p \in BlockChains(file.content) : Len(p) = 4
  /\ \E j \in 1..Len(file.content) : file.content[j].kind = "cont"
  /\ \E j \in 1..Len(file.content) : file.content[j].kind = "dependency"

\* C10 as stated: a collected rule whose package does not start with
\* "//absl/" keeps the run from ever writing the manifest.
C10_AnyRuleOutsidePrefixFails ==
  (\E i \in 1..Len(collected) : ~startswith(collected[i].package, ABSL_PREFIX))
    => pc \notin {"header", "map", "end", "close", "done"}

\* C10, amended: a rule that passes main's filter and whose package does
\* not start with "//absl/" ends the run with an AssertionError raised
\* while the tree is built, and no text is ever written to the manifest.
C10_EligibleRuleOutsidePrefixFails ==
  (\E i \in 1..Len(rules) : ~startswith(rules[i].package, ABSL_PREFIX)) =>
    /\ pc \in {"open", "parse2", "build"}
    /\ \A j \in 1..Len(file.content) : file.content[j] = OldText
    /\ Terminated => err = "AssertionError"

C10_Witness ==
  /\ pc = "build"
  /\ err = "AssertionError"
  /\ file.exists /\ file.content = <<>>
  /\ \E i \in 1..Len(rules) : rules[i].package = PackageOf(D_ABSL)
  /\ Len(rules) >= 2

====
